---- MODULE Spec2Model ----
(***************************************************************************)
(* A model of src/main.py: the weather ingest loop (main), the weather     *)
(* fetcher (get_current_weather), the retrying persistence writer          *)
(* (insert_data_to_mongodb), the liveness reporter (healthcheck) and the   *)
(* grid generator (get_grid_coordinates).                                  *)
(*                                                                         *)
(* The program is single threaded.  pc is the position of its one thread;  *)
(* every blocking call to a collaborator (the HTTP client, the store       *)
(* driver, the clock) is one action whose outcome is chosen by the         *)
(* environment.  Durations are in milliseconds.  Documents (Python dicts)  *)
(* are functions from a set of string keys to strings.                     *)
(***************************************************************************)
EXTENDS Integers, Sequences, FiniteSets, TLC

VARIABLES
    pc,              \* position of the thread
    caller,          \* frame that called insert_data_to_mongodb: "main" or "none"
    idx,             \* main: 1-based position of the for loop in weather_area
    processed_data,  \* main: the success counter
    data,            \* main: the value returned by get_current_weather /
                     \* insert_data_to_mongodb: its data argument (same dict)
    response,        \* get_current_weather: the response of requests.get
    max_retries,     \* insert_data_to_mongodb: its argument
    attempt,         \* insert_data_to_mongodb: the for loop variable
    result,          \* insert_data_to_mongodb: the value it returned
    exc,             \* the exception that propagated uncaught, "none" if none
    trace,           \* history: the calls and sleeps of the current loop
                     \* iteration (or of the call under test)
    iter_start,      \* history: processed_data when the iteration began
    hc_calls,        \* history: the number of calls of healthcheck
    args,            \* get_current_weather: its arguments
    request,         \* get_current_weather: the GET it issued (url, params)
    docs,            \* history: the documents passed to coll.insert_one in
                     \* the current iteration (or the call under test), in order
    written,         \* history: the number of insert attempts that succeeded
    in_corners,      \* get_grid_coordinates: its corners argument
    in_grid,         \* get_grid_coordinates: its grid argument
    grid_coords      \* get_grid_coordinates: the value it returned

fetchvars == <<args, request>>

insertvars == <<docs, written>>

gridvars == <<in_corners, in_grid, grid_coords>>

vars == <<pc, caller, idx, processed_data, data, response, max_retries,
          attempt, result, exc, trace, iter_start, hc_calls,
          args, request, docs, written, in_corners, in_grid, grid_coords>>

-----------------------------------------------------------------------------
(* Bounds of the model *)

\* insert_data_to_mongodb is checked for max_retries in 0..MaxRetries
MaxRetries == 6

\* main stops fetching once processed_data has reached MaxProcessed
MaxProcessed == 50

\* get_grid_coordinates is checked for corners with coordinates in -1..MaxCoord
MaxCoord == 1

\* ... and for a grid density in 2..MaxDensity
MaxDensity == 3

-----------------------------------------------------------------------------
(* Program constants *)

\* main: get_grid_coordinates(COORDINATES, grid=8)
grid == 8

\* main: insert_data_to_mongodb(..., max_retries=5)
main_max_retries == 5

\* main: if processed_data % 25 == 0
MILESTONE == 25

\* main: sleep(1.5)  # read interval
READ_INTERVAL_MS == 1500

\* COORDINATES, in micro-degrees
COORDINATES ==
    << <<2187184, 117639600>>,
       <<2066438, 117639600>>,
       <<2066438, 117560116>>,
       <<2187184, 117560116>> >>

-----------------------------------------------------------------------------
(* Documents *)

EmptyDoc == [k \in {} |-> "None"]

\* d[k] = v on a dict
SetItem(d, k, v) ==
    [x \in (DOMAIN d) \cup {k} |-> IF x = k THEN v ELSE d[x]]

\* The JSON objects the weather API answers with
Bodies ==
    { EmptyDoc,
      [k \in {"temp"} |-> "300"],
      [k \in {"message"} |-> "city not found"] }

\* response.text: a JSON object, or text that is no JSON
ResponseTexts ==
    { [json |-> TRUE, doc |-> d] : d \in Bodies } \cup
    { [json |-> FALSE, doc |-> EmptyDoc] }

StatusCodes == {200, 404}

Responses == [status_code : StatusCodes, text : ResponseTexts]

NoResponse == [status_code |-> 0, text |-> [json |-> FALSE, doc |-> EmptyDoc]]

\* get_current_weather before it is called: no arguments, no GET issued
NoArgs == [url |-> "-", appid |-> "-", lat |-> 0, lon |-> 0, query_dict |-> EmptyDoc]

NoRequest == [url |-> "-", params |-> EmptyDoc]

\* datetime.now(UTC)
Clock == {"t1", "t2"}

\* the outcomes of coll.insert_one(data)
InsertOutcomes == {"ok", "AutoReconnect", "OperationFailure"}

-----------------------------------------------------------------------------
(* History *)

Ev(op, out, n) == [op |-> op, out |-> out, n |-> n]

Last(s) == s[Len(s)]

\* the number of events of trace with operation op
Count(op) == Cardinality({j \in 1..Len(trace) : trace[j].op = op})

-----------------------------------------------------------------------------
(* get_grid_coordinates *)

Min(S) == CHOOSE x \in S : \A y \in S : x <= y
Max(S) == CHOOSE x \in S : \A y \in S : x >= y

\* np.linspace(start, stop, num), every value scaled by (num - 1) so that it
\* stays an integer: element k is start + (k-1) * (stop - start) / (num - 1)
linspace(start, stop, num) ==
    [k \in 1..num |-> start * (num - 1) + (k - 1) * (stop - start)]

\* the comprehension with its two loops exchanged (longitude-major)
get_grid_coordinates_LonMajor(corners, n) ==
    LET lat == {corners[j][1] : j \in 1..Len(corners)}
        lon == {corners[j][2] : j \in 1..Len(corners)}
        lat_points == linspace(Min(lat), Max(lat), n)
        lon_points == linspace(Min(lon), Max(lon), n)
    IN  [j \in 1..(n * n) |->
            << lat_points[((j - 1) % n) + 1], lon_points[((j - 1) \div n) + 1] >>]

\* grid_coords = [(lat, lon) for lat in lat_points for lon in lon_points]
get_grid_coordinates(corners, n) ==
    LET lat == {corners[j][1] : j \in 1..Len(corners)}
        lon == {corners[j][2] : j \in 1..Len(corners)}
        lat_points == linspace(Min(lat), Max(lat), n)
        lon_points == linspace(Min(lon), Max(lon), n)
    IN  [j \in 1..(n * n) |->
            << lat_points[((j - 1) \div n) + 1], lon_points[((j - 1) % n) + 1] >>]

weather_area == get_grid_coordinates(COORDINATES, grid)

\* grid_coords = get_grid_coordinates(corners, grid)
GetGrid ==
    /\ pc = "grid_entry"
    /\ grid_coords' = get_grid_coordinates(in_corners, in_grid)
    /\ pc' = "grid_done"
    /\ UNCHANGED <<caller, idx, processed_data, data, response, max_retries,
                   attempt, result, exc, trace, iter_start, hc_calls,
                   args, request, docs, written, in_corners, in_grid>>

\* get_grid_coordinates called on its own, for every four corners and every
\* density of the bounds
InitGrid ==
    /\ pc = "grid_entry"
    /\ caller = "none"
    /\ idx = 1
    /\ processed_data = 0
    /\ data = EmptyDoc
    /\ response = NoResponse
    /\ max_retries = 0
    /\ attempt = 0
    /\ result = "-"
    /\ exc = "none"
    /\ trace = <<>>
    /\ iter_start = 0
    /\ hc_calls = 0
    /\ args = NoArgs
    /\ request = NoRequest
    /\ docs = <<>>
    /\ written = 0
    /\ in_corners \in [1..4 -> (-1..MaxCoord) \X (-1..MaxCoord)]
    /\ in_grid \in 2..MaxDensity
    /\ grid_coords = <<>>

NextGrid == GetGrid

SpecGrid == InitGrid /\ [][NextGrid]_vars

-----------------------------------------------------------------------------
(* insert_data_to_mongodb *)

\* a handler that catches every failure of insert_one (except Exception)
IsCaught_Any(outcome) == outcome # "ok"

\* except errors.AutoReconnect: the one failure class the handler catches
IsCaught(outcome) == outcome = "AutoReconnect"

\* a handler whose raise on the final attempt is missing
IsFinalAttempt_Never(a, n) == FALSE

\* the final attempt taken to be the last of the range (attempt == max_retries)
IsFinalAttempt_LastOfRange(a, n) == a = n

\* if attempt + 1 == max_retries: ... raise
IsFinalAttempt(a, n) == a + 1 = n

\* a pause that grows linearly (attempt + 1) instead of quadratically
retry_pause_Linear(a) == a + 1

\* retry_pause = (attempt + 1) ** 2, in seconds
retry_pause(a) == (a + 1) * (a + 1)

\* for attempt in range(max_retries + 1): is a still in the range
InRange(a, n) == a < n + 1

\* a main that catches what its loop body raises and goes on to the read
\* interval
Propagate_CaughtByMain(e) ==
    /\ pc' = IF caller = "main" THEN "sleep" ELSE "raised"
    /\ exc' = IF caller = "main" THEN "none" ELSE e

\* an exception leaves the outermost frame
Propagate(e) ==
    /\ pc' = "raised"
    /\ exc' = e

\* data["processed_at"] = None; data["inserted_at"] = datetime.now(UTC);
\* then the for loop is entered
InsertEntry ==
    /\ pc = "insert_entry"
    /\ \E now \in Clock :
         data' = SetItem(SetItem(data, "processed_at", "None"), "inserted_at", now)
    /\ attempt' = 0
    /\ pc' = "insert_one"
    /\ UNCHANGED <<caller, idx, processed_data, response, max_retries, result,
                   exc, trace, iter_start, hc_calls,
                   fetchvars, written, gridvars>>
    /\ docs' = <<>>

\* return result: back in the caller
InsertReturn(r) ==
    /\ result' = r
    /\ pc' = IF caller = "main" THEN "count" ELSE "returned"

\* One pass of the try statement: coll.insert_one(data) and, when it raises,
\* the except clause up to the raise or up to the sleep
InsertOne ==
    /\ pc = "insert_one"
    /\ \E outcome \in InsertOutcomes :
         /\ trace' = Append(trace, Ev("insert_one", outcome, attempt))
         /\ docs' = Append(docs, data)
         /\ written' = IF outcome = "ok" THEN written + 1 ELSE written
         /\ IF outcome = "ok"
            THEN /\ InsertReturn("InsertOneResult")
                 /\ UNCHANGED exc
            ELSE IF ~IsCaught(outcome)
            THEN /\ Propagate(outcome)
                 /\ UNCHANGED result
            ELSE IF IsFinalAttempt(attempt, max_retries)
            THEN /\ Propagate(outcome)
                 /\ UNCHANGED result
            ELSE /\ pc' = "retry_sleep"
                 /\ UNCHANGED <<result, exc>>
    /\ UNCHANGED <<caller, idx, processed_data, data, response, max_retries,
                   attempt, iter_start, hc_calls,
                   fetchvars, gridvars>>

\* a retry that stamps the document again before the next attempt
RetrySleep_Refresh ==
    /\ pc = "retry_sleep"
    /\ trace' = Append(trace, Ev("sleep", "-", retry_pause(attempt) * 1000))
    /\ \E now \in Clock : data' = SetItem(data, "inserted_at", now)
    /\ IF InRange(attempt + 1, max_retries)
       THEN /\ attempt' = attempt + 1
            /\ pc' = "insert_one"
            /\ UNCHANGED result
       ELSE /\ InsertReturn("None")
            /\ UNCHANGED attempt
    /\ UNCHANGED <<caller, idx, processed_data, response, max_retries,
                   exc, iter_start, hc_calls, fetchvars, insertvars, gridvars>>

\* sleep(retry_pause), then the for loop takes the next attempt of the range;
\* when the range is exhausted the function ends, returning None
RetrySleep ==
    /\ pc = "retry_sleep"
    /\ trace' = Append(trace, Ev("sleep", "-", retry_pause(attempt) * 1000))
    /\ IF InRange(attempt + 1, max_retries)
       THEN /\ attempt' = attempt + 1
            /\ pc' = "insert_one"
            /\ UNCHANGED result
       ELSE /\ InsertReturn("None")
            /\ UNCHANGED attempt
    /\ UNCHANGED <<caller, idx, processed_data, data, response, max_retries,
                   exc, iter_start, hc_calls,
                   fetchvars, insertvars, gridvars>>

\* insert_data_to_mongodb called on its own, for every max_retries of the bound
InitInsert ==
    /\ pc = "insert_entry"
    /\ caller = "none"
    /\ idx = 1
    /\ processed_data = 0
    /\ data \in Bodies
    /\ response = NoResponse
    /\ max_retries \in 0..MaxRetries
    /\ attempt = 0
    /\ result = "-"
    /\ exc = "none"
    /\ trace = <<>>
    /\ iter_start = 0
    /\ hc_calls = 0
    /\ args = NoArgs
    /\ request = NoRequest
    /\ docs = <<>>
    /\ written = 0
    /\ in_corners = COORDINATES
    /\ in_grid = grid
    /\ grid_coords = <<>>

NextInsert == InsertEntry \/ InsertOne \/ RetrySleep

SpecInsert == InitInsert /\ [][NextInsert]_vars

-----------------------------------------------------------------------------
(* get_current_weather *)

\* BASEURL
BASEURL == "https://api.openweathermap.org/data/2.5/weather"

\* APIKEY = creds["openweatherapikey"]
APIKEY == "openweatherapikey"

\* {**a, **b}: the keys of both, b winning on a key of both
Merge(a, b) ==
    [k \in (DOMAIN a) \cup (DOMAIN b) |-> IF k \in DOMAIN b THEN b[k] ELSE a[k]]

\* requiredparams = {"appid": APIKEY, "lat": lat, "lon": lon}
requiredparams(appid, lat, lon) ==
    [k \in {"appid", "lat", "lon"} |->
        IF k = "appid" THEN APIKEY ELSE IF k = "lat" THEN lat ELSE lon]

\* getparams = {**requiredparams, **query_dict}
getparams(appid, lat, lon, query_dict) ==
    Merge(requiredparams(appid, lat, lon), query_dict)

\* requests.get(BASEURL, ...): the address the GET goes to
get_url(url) == BASEURL

\* the arguments of the call main makes for the grid point at position i
main_args(i) ==
    [url |-> BASEURL, appid |-> APIKEY,
     lat |-> weather_area[i][1], lon |-> weather_area[i][2],
     query_dict |-> EmptyDoc]

\* a decoder that takes any text, giving {} for what is no JSON
json_decodable_Lenient(text) == TRUE

\* json.loads(response.text) raises when the text is no JSON
json_decodable(text) == text.json

\* json.loads(response.text)
json_loads(text) == text.doc

\* resp_dict["message"] raises KeyError when the key is absent
has_message(resp_dict) == "message" \in DOMAIN resp_dict

\* response = requests.get(BASEURL, params=getparams), called with the
\* arguments a: the GET either raises a transport error or answers
Get(a) ==
    /\ request' = [url |-> get_url(a.url),
                   params |-> getparams(a.appid, a.lat, a.lon, a.query_dict)]
    /\ \/ /\ trace' = << Ev("get", "ConnectionError", idx) >>
          /\ Propagate("ConnectionError")
          /\ UNCHANGED response
       \/ /\ trace' = << Ev("get", "response", idx) >>
          /\ \E r \in Responses : response' = r
          /\ pc' = "decode"
          /\ UNCHANGED exc

\* main: data = get_current_weather(BASEURL, APIKEY, lat, lon), up to the
\* GET.  A new iteration of the for loop begins here.
Fetch ==
    /\ pc = "fetch"
    /\ processed_data < MaxProcessed
    /\ iter_start' = processed_data
    /\ args' = main_args(idx)
    /\ Get(main_args(idx))
    /\ docs' = <<>>
    /\ UNCHANGED <<caller, idx, processed_data, data, max_retries, attempt,
                   result, hc_calls, written, gridvars>>

\* get_current_weather called on its own, up to the GET
FetchDirect ==
    /\ pc = "fetch_entry"
    /\ Get(args)
    /\ UNCHANGED <<caller, idx, processed_data, data, max_retries, attempt,
                   result, iter_start, hc_calls, args, insertvars, gridvars>>

\* get_current_weather returns value to main
FetchReturn(value) ==
    /\ data' = value
    /\ response' = NoResponse
    /\ pc' = "check"
    /\ trace' = Append(trace, Ev("return",
                                 IF DOMAIN value = {} THEN "empty" ELSE "reading",
                                 response.status_code))
    /\ UNCHANGED exc

\* status_code = response.status_code; resp_dict = json.loads(response.text);
\* return resp_dict on 200, else read resp_dict["message"], log it, return {}
Decode ==
    /\ pc = "decode"
    /\ IF ~json_decodable(response.text)
       THEN /\ Propagate("JSONDecodeError")
            /\ UNCHANGED <<data, response, trace>>
       ELSE LET resp_dict == json_loads(response.text) IN
            IF response.status_code = 200
            THEN FetchReturn(resp_dict)
            ELSE IF ~has_message(resp_dict)
            THEN /\ Propagate("KeyError")
                 /\ UNCHANGED <<data, response, trace>>
            ELSE FetchReturn(EmptyDoc)
    /\ UNCHANGED <<caller, idx, processed_data, max_retries, attempt, result,
                   iter_start, hc_calls,
                   fetchvars, insertvars, gridvars>>

\* the extra query parameters a caller passes
QueryDicts ==
    { EmptyDoc,
      [k \in {"units"} |-> "metric"],
      [k \in {"appid"} |-> "override key"],
      [k \in {"lat"} |-> 9] }

\* get_current_weather called on its own, with the endpoint and key of the
\* program or others
InitFetch ==
    /\ pc = "fetch_entry"
    /\ caller = "none"
    /\ idx = 1
    /\ processed_data = 0
    /\ data = EmptyDoc
    /\ response = NoResponse
    /\ max_retries = 0
    /\ attempt = 0
    /\ result = "-"
    /\ exc = "none"
    /\ trace = <<>>
    /\ iter_start = 0
    /\ hc_calls = 0
    /\ args \in [url : {BASEURL, "https://example.org/weather"},
                 appid : {APIKEY, "another key"},
                 lat : {-3, 2},
                 lon : {117},
                 query_dict : QueryDicts]
    /\ request = NoRequest
    /\ docs = <<>>
    /\ written = 0
    /\ in_corners = COORDINATES
    /\ in_grid = grid
    /\ grid_coords = <<>>

NextFetch == FetchDirect \/ Decode

SpecFetch == InitFetch /\ [][NextFetch]_vars

-----------------------------------------------------------------------------
(* healthcheck *)

\* the outcomes of requests.get(hcurl, timeout=10)
PingOutcomes == {"ok", "RequestException"}

\* a healthcheck whose handler lets the failure of the GET through
Healthcheck_Raises ==
    /\ pc = "healthcheck"
    /\ hc_calls' = hc_calls + 1
    /\ \E outcome \in PingOutcomes :
         /\ trace' = Append(trace, Ev("healthcheck", outcome, 0))
         /\ IF outcome = "ok"
            THEN pc' = "sleep" /\ UNCHANGED exc
            ELSE Propagate(outcome)
    /\ UNCHANGED <<caller, idx, processed_data, data, response, max_retries,
                   attempt, result, iter_start,
                   fetchvars, insertvars, gridvars>>

\* healthcheck(HEALTHCHECK_URL): one GET; except requests.RequestException the
\* failure is logged and the function returns
Healthcheck ==
    /\ pc = "healthcheck"
    /\ hc_calls' = hc_calls + 1
    /\ \E outcome \in PingOutcomes :
         trace' = Append(trace, Ev("healthcheck", outcome, 0))
    /\ pc' = "sleep"
    /\ UNCHANGED <<caller, idx, processed_data, data, response, max_retries,
                   attempt, result, exc, iter_start,
                   fetchvars, insertvars, gridvars>>

-----------------------------------------------------------------------------
(* main *)

\* for lat, lon in weather_area, inside while True: the position after i
Advance(i) == IF i = Len(weather_area) THEN 1 ELSE i + 1

\* a main that never takes the returned value for the empty-marker
IsEmptyMarker_Never(d) == FALSE

\* if data == {}
IsEmptyMarker(d) == DOMAIN d = {}

\* a milestone test made one increment late
IsMilestone_Late(p) == p % MILESTONE = 1

\* if processed_data % 25 == 0
IsMilestone(p) == p % MILESTONE = 0

\* a store ping whose failure is not caught
StorePing_Fatal ==
    /\ pc = "ping"
    /\ \E outcome \in {"ok", "Exception"} :
         /\ trace' = Append(trace, Ev("ping", outcome, 0))
         /\ IF outcome = "ok"
            THEN pc' = "fetch" /\ UNCHANGED exc
            ELSE Propagate(outcome)
    /\ UNCHANGED <<caller, idx, processed_data, data, response, max_retries,
                   attempt, result, iter_start, hc_calls,
                   fetchvars, insertvars, gridvars>>

\* client.admin.command("ping") inside try / except Exception: whatever the
\* outcome, it is logged and the loop is entered
StorePing ==
    /\ pc = "ping"
    /\ \E outcome \in {"ok", "Exception"} :
         trace' = Append(trace, Ev("ping", outcome, 0))
    /\ pc' = "fetch"
    /\ UNCHANGED <<caller, idx, processed_data, data, response, max_retries,
                   attempt, result, exc, iter_start, hc_calls,
                   fetchvars, insertvars, gridvars>>

\* if data == {}: logger.error(...); continue
SkipEmpty ==
    /\ pc = "check"
    /\ IsEmptyMarker(data)
    /\ trace' = Append(trace, Ev("continue", "-", 0))
    /\ idx' = Advance(idx)
    /\ pc' = "fetch"
    /\ UNCHANGED <<caller, processed_data, data, response, max_retries,
                   attempt, result, exc, iter_start, hc_calls,
                   fetchvars, insertvars, gridvars>>

\* else: ...; insert_data_to_mongodb(client, ..., data=data, max_retries=5)
CallInsert ==
    /\ pc = "check"
    /\ ~IsEmptyMarker(data)
    /\ trace' = Append(trace, Ev("insert_data_to_mongodb", "-", main_max_retries))
    /\ max_retries' = main_max_retries
    /\ caller' = "main"
    /\ pc' = "insert_entry"
    /\ UNCHANGED <<idx, processed_data, data, response, attempt, result, exc,
                   iter_start, hc_calls,
                   fetchvars, insertvars, gridvars>>

\* processed_data += 1; if processed_data % 25 == 0: ...
CountProcessed ==
    /\ pc = "count"
    /\ processed_data' = processed_data + 1
    /\ trace' = Append(trace, Ev("incr", "-", processed_data + 1))
    /\ pc' = IF IsMilestone(processed_data + 1) THEN "healthcheck" ELSE "sleep"
    /\ UNCHANGED <<caller, idx, data, response, max_retries, attempt, result,
                   exc, iter_start, hc_calls,
                   fetchvars, insertvars, gridvars>>

\* sleep(1.5)  # read interval; then the for loop takes the next grid point
ReadInterval ==
    /\ pc = "sleep"
    /\ trace' = Append(trace, Ev("sleep", "-", READ_INTERVAL_MS))
    /\ idx' = Advance(idx)
    /\ pc' = "fetch"
    /\ UNCHANGED <<caller, processed_data, data, response, max_retries,
                   attempt, result, exc, iter_start, hc_calls,
                   fetchvars, insertvars, gridvars>>

Init ==
    /\ pc = "ping"
    /\ caller = "main"
    /\ idx = 1
    /\ processed_data = 0
    /\ data = EmptyDoc
    /\ response = NoResponse
    /\ max_retries = main_max_retries
    /\ attempt = 0
    /\ result = "-"
    /\ exc = "none"
    /\ trace = <<>>
    /\ iter_start = 0
    /\ hc_calls = 0
    /\ args = NoArgs
    /\ request = NoRequest
    /\ docs = <<>>
    /\ written = 0
    /\ in_corners = COORDINATES
    /\ in_grid = grid
    /\ grid_coords = <<>>

Next ==
    \/ StorePing
    \/ Fetch
    \/ Decode
    \/ SkipEmpty
    \/ CallInsert
    \/ InsertEntry
    \/ InsertOne
    \/ RetrySleep
    \/ CountProcessed
    \/ Healthcheck
    \/ ReadInterval

Spec == Init /\ [][Next]_vars

-----------------------------------------------------------------------------
(* Properties of insert_data_to_mongodb, checked under SpecInsert *)

\* the call has ended: it returned to its caller or raised
Terminated == pc \in {"returned", "raised"}

\* every insert attempt so far failed with the transient reconnect error
AllTransient ==
    \A j \in 1..Len(trace) :
        trace[j].op = "insert_one" => trace[j].out = "AutoReconnect"

\* the number of insert attempts that failed with the transient error
TransientFailures ==
    Cardinality({j \in 1..Len(trace) :
                    trace[j].op = "insert_one" /\ trace[j].out = "AutoReconnect"})

\* k transient failures, each followed by a sleep of (its 1-based number)^2
\* seconds, then one more attempt whose outcome is last
RetryTrace(k, last) ==
    [j \in 1..(2 * k + 1) |->
        IF j = 2 * k + 1 THEN Ev("insert_one", last, k)
        ELSE IF j % 2 = 1 THEN Ev("insert_one", "AutoReconnect", j \div 2)
        ELSE Ev("sleep", "-", (j \div 2) * (j \div 2) * 1000)]

\* C1 (as claimed): for every max_retries >= 0, a call in which every insert
\* attempt fails with the transient error ends by raising that error; it
\* never returns normally without an insert having succeeded.
C1_AllFailRaises ==
    (Terminated /\ AllTransient) => (pc = "raised" /\ exc = "AutoReconnect")

\* C2: with max_retries = n >= 1 and a store that fails transiently on every
\* attempt, the call raises after exactly n attempts, having slept 1, 4, ...,
\* (n-1)^2 seconds between consecutive attempts and not after the last one.
C2_RaisesAfterNAttempts ==
    (max_retries >= 1 /\ Terminated /\ AllTransient) =>
        /\ pc = "raised"
        /\ exc = "AutoReconnect"
        /\ Count("insert_one") = max_retries
        /\ trace = RetryTrace(max_retries - 1, "AutoReconnect")

C2_Witness ==
    /\ max_retries = 2
    /\ pc = "raised"
    /\ exc = "AutoReconnect"
    /\ Count("insert_one") = 2
    /\ Count("sleep") = 1
    /\ trace[2] = Ev("sleep", "-", 1000)

\* C3: with max_retries = 5, when the first k attempts fail transiently and
\* attempt k+1 succeeds, the call returns the successful result at attempt
\* k+1, having slept 1^2, 2^2, ..., k^2 seconds, one sleep after each failed
\* attempt and before the next attempt.
C3_SucceedsAfterKFailures ==
    (max_retries = 5 /\ trace # <<>> /\ Last(trace) = Ev("insert_one", "ok", attempt)) =>
        /\ pc = "returned"
        /\ result = "InsertOneResult"
        /\ exc = "none"
        /\ attempt = TransientFailures
        /\ trace = RetryTrace(TransientFailures, "ok")

C3_Witness ==
    /\ max_retries = 5
    /\ pc = "returned"
    /\ result = "InsertOneResult"
    /\ trace = << Ev("insert_one", "AutoReconnect", 0), Ev("sleep", "-", 1000),
                  Ev("insert_one", "AutoReconnect", 1), Ev("sleep", "-", 4000),
                  Ev("insert_one", "AutoReconnect", 2), Ev("sleep", "-", 9000),
                  Ev("insert_one", "ok", 3) >>

\* C7: a failure of an insert attempt that is not of the transient reconnect
\* class is never retried: at whichever attempt it occurs it is the last event
\* of the call, which raises it with no sleep and no further attempt.
C7_OtherFailureNotRetried ==
    \A j \in 1..Len(trace) :
        (trace[j].op = "insert_one" /\ trace[j].out = "OperationFailure") =>
            /\ j = Len(trace)
            /\ pc = "raised"
            /\ exc = "OperationFailure"

C7_Witness ==
    /\ pc = "raised"
    /\ exc = "OperationFailure"
    /\ trace = << Ev("insert_one", "AutoReconnect", 0), Ev("sleep", "-", 1000),
                  Ev("insert_one", "AutoReconnect", 1), Ev("sleep", "-", 4000),
                  Ev("insert_one", "OperationFailure", 2) >>

-----------------------------------------------------------------------------
(* Properties of the ingest loop, checked under Spec *)

\* an iteration of the for loop has just ended: the next fetch is due and
\* trace holds the events of the iteration that ended
IterDone == pc = "fetch" /\ trace # <<>> /\ trace[1].op = "get"

\* the value get_current_weather returned in this iteration, "-" before it
Returned == IF Len(trace) >= 2 /\ trace[2].op = "return" THEN trace[2].out ELSE "-"

\* C4 (as claimed): after every grid point the fixed 1.5 s delay is taken
\* before the next fetch is issued, also when the point was skipped: the last
\* thing before a fetch that follows another fetch is the 1.5 s sleep.
C4_SleepBeforeEveryFetch ==
    IterDone => Last(trace) = Ev("sleep", "-", 1500)

\* C5: healthcheck is invoked exactly once per 25 successful persists: the
\* number of invocations is floor(processed_data / 25) (one less while the
\* invocation of the current milestone is pending), an invocation happens only
\* in the iteration whose increment reached a multiple of 25 and happens in
\* every such iteration, and never in an iteration that skipped its point.
C5_HealthcheckEvery25 ==
    /\ hc_calls = (processed_data \div 25) - (IF pc = "healthcheck" THEN 1 ELSE 0)
    /\ Count("healthcheck") <= 1
    /\ \A j \in 1..Len(trace) :
         trace[j].op = "healthcheck" =>
            /\ j > 1
            /\ trace[j - 1].op = "incr"
            /\ trace[j - 1].n = processed_data
            /\ processed_data % 25 = 0
    /\ (IterDone /\ processed_data # iter_start /\ processed_data % 25 = 0) =>
            Count("healthcheck") = 1
    /\ Count("continue") > 0 => Count("healthcheck") = 0

C5_Witness ==
    /\ pc = "fetch"
    /\ processed_data = 50
    /\ hc_calls = 2
    /\ Count("healthcheck") = 1

\* C6: a grid point whose fetch returns the empty-marker causes no persistence
\* call and no increment of the counter; a grid point whose fetch returns a
\* reading causes exactly one persistence call and, when it succeeds, exactly
\* one increment.
C6_PersistOnlyReadings ==
    /\ Count("insert_data_to_mongodb") <= 1
    /\ processed_data \in {iter_start, iter_start + 1}
    /\ Returned = "empty" =>
         /\ Count("insert_data_to_mongodb") = 0
         /\ Count("insert_one") = 0
         /\ processed_data = iter_start
    /\ (Returned = "reading" /\ pc \notin {"check"}) =>
         Count("insert_data_to_mongodb") = 1
    /\ processed_data = iter_start + 1 =>
         /\ Returned = "reading"
         /\ Count("incr") = 1
         /\ \E j \in 1..Len(trace) : trace[j].op = "insert_one" /\ trace[j].out = "ok"
    /\ (IterDone /\ Returned = "reading") => processed_data = iter_start + 1

C6_Witness ==
    /\ IterDone
    /\ Returned = "reading"
    /\ Count("insert_data_to_mongodb") = 1
    /\ processed_data = 2
    /\ iter_start = 1
    /\ idx = 4

\* an insert attempt that makes insert_data_to_mongodb raise in main
\* (max_retries = 5): a failure that is not transient, or the fifth
\* transient failure
RaisingAttempt(e) ==
    /\ e.op = "insert_one"
    /\ \/ e.out = "OperationFailure"
       \/ e.out = "AutoReconnect" /\ e.n = 4

\* C8: when a persistence call raises, the ingest loop does not recover: the
\* raise is the last event of the process, which has terminated with that
\* exception, with no increment of the counter, no healthcheck and no sleep
\* after it, and no step is ever taken after termination.
C8_PersistFailureCrashes ==
    /\ [](\A j \in 1..Len(trace) :
            RaisingAttempt(trace[j]) =>
                /\ j = Len(trace)
                /\ pc = "raised"
                /\ exc = trace[j].out
                /\ processed_data = iter_start
                /\ Count("healthcheck") = 0
                /\ Count("incr") = 0)
    /\ [][pc = "raised" => UNCHANGED vars]_vars

C8_Witness ==
    /\ pc = "raised"
    /\ exc = "AutoReconnect"
    /\ Count("insert_one") = 5
    /\ Count("sleep") = 4
    /\ processed_data = 1

\* C9 (as claimed): for every non-200 response with a JSON body, whether or
\* not the body has a message field, get_current_weather does not raise.
C9_Non200NeverRaises ==
    (response # NoResponse /\ response.status_code # 200 /\ response.text.json)
        => pc # "raised"

\* C10: healthcheck never raises on a failure of its GET: it issues one GET,
\* a failed ping is not retried, and whatever the outcome main goes on to the
\* read interval with the same counter and the same grid position.
C10_HealthcheckNeverRaises ==
    /\ [](Count("healthcheck") <= 1)
    /\ [][pc = "healthcheck" =>
            /\ pc' = "sleep"
            /\ exc' = "none"
            /\ processed_data' = processed_data
            /\ idx' = idx
            /\ hc_calls' = hc_calls + 1
            /\ \E o \in {"ok", "RequestException"} :
                 trace' = Append(trace, Ev("healthcheck", o, 0))]_vars

C10_Witness ==
    /\ pc = "fetch"
    /\ exc = "none"
    /\ processed_data = 25
    /\ Len(trace) >= 2
    /\ trace[Len(trace) - 1] = Ev("healthcheck", "RequestException", 0)
    /\ Last(trace) = Ev("sleep", "-", 1500)

\* the position of the for loop advances cyclically: the iteration that just
\* ended fetched the grid point before the one due now, the first after the last
FetchOrderCyclic ==
    IterDone => idx = (trace[1].n % (grid * grid)) + 1

\* C11 (as claimed): as long as no persistence call raises, the ingest loop
\* never terminates: whenever the process has terminated, the exception that
\* ended it came out of an insert attempt.
C11_EndsOnlyOnPersistFailure ==
    pc = "raised" => exc \in {"AutoReconnect", "OperationFailure"}

\* C14: a failure of the store ping at startup is not fatal: whether the ping
\* succeeds or fails, the loop is entered with the counter at 0 and the first
\* request it issues is for the first grid point.
C14_PingFailureNotFatal ==
    /\ []((trace # <<>> /\ trace[1].op = "ping") =>
            /\ trace[1].out \in {"ok", "Exception"}
            /\ pc = "fetch"
            /\ exc = "none"
            /\ idx = 1
            /\ processed_data = 0)
    /\ [][(trace # <<>> /\ trace[1].op = "ping") =>
            /\ trace'[1].op = "get"
            /\ trace'[1].n = 1
            /\ processed_data' = 0]_vars

C14_Witness ==
    /\ trace = << Ev("ping", "Exception", 0) >>
    /\ pc = "fetch"
    /\ idx = 1
    /\ processed_data = 0
    /\ exc = "none"

C18_FetchFailureCrashes ==
    /\ [](exc \in {"ConnectionError", "JSONDecodeError"} =>
            /\ pc = "raised"
            /\ Len(trace) = 1
            /\ trace[1].op = "get"
            /\ trace[1].out = "ConnectionError" <=> exc = "ConnectionError"
            /\ processed_data = iter_start)
    /\ []((trace # <<>> /\ trace[1] = Ev("get", "ConnectionError", idx)) =>
            pc = "raised" /\ exc = "ConnectionError")
    /\ [][(pc = "decode" /\ ~response.text.json) =>
            /\ pc' = "raised"
            /\ exc' = "JSONDecodeError"
            /\ UNCHANGED <<trace, processed_data, hc_calls, data>>]_vars
    /\ [][pc = "raised" => UNCHANGED vars]_vars

C18_Witness ==
    /\ pc = "raised"
    /\ exc = "JSONDecodeError"
    /\ response.status_code = 200
    /\ ~response.text.json
    /\ processed_data = 1
    /\ trace = << Ev("get", "response", 3) >>

-----------------------------------------------------------------------------
(* Properties of the documents written *)

\* C12: every document passed to an insert attempt has processed_at = null
\* and an inserted_at value set before the first attempt; all attempts of one
\* call carry the same inserted_at value.
C12_MetadataSetOnce ==
    /\ Len(docs) = Count("insert_one")
    /\ \A j \in 1..Len(docs) :
         /\ {"processed_at", "inserted_at"} \subseteq DOMAIN docs[j]
         /\ docs[j].processed_at = "None"
         /\ docs[j].inserted_at \in Clock
         /\ docs[j].inserted_at = docs[1].inserted_at
    /\ pc \in {"insert_one", "retry_sleep"} =>
         /\ {"processed_at", "inserted_at"} \subseteq DOMAIN data
         /\ \A j \in 1..Len(docs) : docs[j] = data

C12_Witness ==
    /\ pc = "returned"
    /\ Len(docs) = 3
    /\ docs[1].inserted_at = "t2"
    /\ docs[3].inserted_at = "t2"
    /\ docs[3].processed_at = "None"
    /\ Last(trace) = Ev("insert_one", "ok", 2)

\* the insert attempts of the current iteration that succeeded
OkAttempts ==
    {j \in 1..Len(trace) : trace[j].op = "insert_one" /\ trace[j].out = "ok"}

\* C17: in the ingest loop the success counter never exceeds the number of
\* insert attempts that succeeded: it is incremented only after a call whose
\* insert succeeded, at most one insert succeeds per call and no attempt
\* follows it, the counter never decreases, and at the end of every iteration
\* it equals the number of documents written.
C17_CounterIsDocumentsWritten ==
    /\ [](/\ processed_data <= written
          /\ written <= processed_data + 1
          /\ written = processed_data + 1 => pc = "count"
          /\ pc = "fetch" => processed_data = written)
    /\ [](/\ Cardinality(OkAttempts) <= 1
          /\ \A j \in OkAttempts :
               \A k \in (j + 1)..Len(trace) : trace[k].op # "insert_one")
    /\ [][processed_data' >= processed_data]_vars
    /\ [][processed_data' # processed_data =>
            /\ processed_data' = processed_data + 1
            /\ result = "InsertOneResult"
            /\ OkAttempts # {}
            /\ written = processed_data']_vars

C17_Witness ==
    /\ pc = "fetch"
    /\ processed_data = 3
    /\ written = 3
    /\ Count("insert_one") = 2
    /\ Cardinality(OkAttempts) = 1

-----------------------------------------------------------------------------
(* Properties of get_current_weather called on its own, checked under SpecFetch *)

\* C15 (as claimed): the single GET goes to the endpoint the function was
\* given, with a query that is the required parameters built from its own
\* arguments (appid, lat, lon) merged with the extra parameters, an extra
\* parameter winning on a key of both.
C15_RequestBuiltFromArguments ==
    request.url # "-" =>
        /\ request.url = args.url
        /\ request.params =
             Merge([k \in {"appid", "lat", "lon"} |->
                        IF k = "appid" THEN args.appid
                        ELSE IF k = "lat" THEN args.lat ELSE args.lon],
                   args.query_dict)

-----------------------------------------------------------------------------
(* Properties of get_grid_coordinates, checked under SpecGrid *)

\* the latitudes and the longitudes of the corners given
CornerLats == {in_corners[j][1] : j \in 1..4}
CornerLons == {in_corners[j][2] : j \in 1..4}

\* x is the least (the greatest) element of S
IsLeast(x, S) == x \in S /\ \A y \in S : x <= y
IsGreatest(x, S) == x \in S /\ \A y \in S : x >= y

\* the k-th (0-based) value of the latitude axis and of the longitude axis of
\* the grid returned: the latitude of the first point of row k, the longitude
\* of the k-th point of the first row
LatAxis(k) == grid_coords[k * in_grid + 1][1]
LonAxis(k) == grid_coords[k + 1][2]

\* C13: for any four corners and density d >= 2 the grid returned has exactly
\* d*d points in latitude-major order: the point at index i pairs the
\* (i div d)-th latitude with the (i mod d)-th longitude of two increasing axis
\* sequences, the first point is (min latitude, min longitude) and the last is
\* (max latitude, max longitude) of the corners.  Coordinates are scaled by
\* d - 1.
C13_GridLatitudeMajor ==
    pc = "grid_done" =>
        LET d == in_grid IN
        /\ d >= 2
        /\ Len(grid_coords) = d * d
        /\ \A i \in 0..(d * d - 1) :
             grid_coords[i + 1] = << LatAxis(i \div d), LonAxis(i % d) >>
        /\ \A k \in 0..(d - 2) :
             /\ LatAxis(k) <= LatAxis(k + 1)
             /\ LonAxis(k) <= LonAxis(k + 1)
             /\ Cardinality(CornerLats) > 1 => LatAxis(k) < LatAxis(k + 1)
             /\ Cardinality(CornerLons) > 1 => LonAxis(k) < LonAxis(k + 1)
        /\ \E lo \in CornerLats, hi \in CornerLats, we \in CornerLons, ea \in CornerLons :
             /\ IsLeast(lo, CornerLats) /\ IsGreatest(hi, CornerLats)
             /\ IsLeast(we, CornerLons) /\ IsGreatest(ea, CornerLons)
             /\ grid_coords[1] = << lo * (d - 1), we * (d - 1) >>
             /\ grid_coords[d * d] = << hi * (d - 1), ea * (d - 1) >>

C13_Witness ==
    /\ pc = "grid_done"
    /\ in_grid = 3
    /\ in_corners = << <<1, 1>>, <<-1, 1>>, <<-1, 0>>, <<1, 0>> >>
    /\ Len(grid_coords) = 9
    /\ grid_coords[1] = <<-2, 0>>
    /\ grid_coords[2] = <<-2, 1>>
    /\ grid_coords[4] = <<0, 0>>
    /\ grid_coords[9] = <<2, 2>>

====
